---- MODULE Spec2Model ----
(***************************************************************************)
(* Checked conversion between machine integers (src/src/int.rs).           *)
(*                                                                         *)
(* The crate implements TryFrom<$f> for $t for every ordered pair of the   *)
(* ten integer kinds through five macros, each instantiated over a table   *)
(* of pairs.  A call is modelled as one step from pc = "call" to           *)
(* pc = "done"; which macro's body runs is decided by the table that holds *)
(* the pair, as trait resolution does.                                     *)
(*                                                                         *)
(* Machine integers reach 2^64 - 1, beyond the integers TLC computes with, *)
(* so a mathematical value is held as an 80-bit two's complement number in *)
(* five 16-bit limbs, least significant first.  Every value of every kind  *)
(* (-2^63 .. 2^64 - 1) has exactly one such representation, so equality of *)
(* limb tuples is equality of mathematical values.                         *)
(***************************************************************************)
EXTENDS Integers, Sequences, FiniteSets, TLC

VARIABLES ptr_width, src, dst, arg, result, promoted, pc

vars == <<ptr_width, src, dst, arg, result, promoted, pc>>

(***************************************************************************)
(* Bounds of the model.                                                    *)
(***************************************************************************)
\* Arguments are taken within MaxDelta of every power-of-two boundary.
MaxDelta == 2

(***************************************************************************)
(* Wide integers.                                                          *)
(***************************************************************************)
Base == 2^16

Limbs == 1..5

Zero == [k \in Limbs |-> 0]

\* A small integer (|i| < 2^31) as a wide integer.
ZFromInt(i) ==
    [k \in Limbs |-> IF k = 1 THEN i % Base
                     ELSE IF k = 2 THEN (i \div Base) % Base
                     ELSE IF i < 0 THEN Base - 1 ELSE 0]

\* 2^e for 0 <= e < 80.
Pow2(e) == [k \in Limbs |-> IF k = (e \div 16) + 1 THEN 2^(e % 16) ELSE 0]

RECURSIVE Carry(_, _, _)
\* The carry into limb k of a + b.
Carry(a, b, k) ==
    IF k = 1 THEN 0 ELSE (a[k-1] + b[k-1] + Carry(a, b, k-1)) \div Base

ZAdd(a, b) == [k \in Limbs |-> (a[k] + b[k] + Carry(a, b, k)) % Base]

ZNegate(a) == ZAdd([k \in Limbs |-> Base - 1 - a[k]], ZFromInt(1))

ZSub(a, b) == ZAdd(a, ZNegate(b))

ZIsNeg(a) == a[5] >= Base \div 2

\* a < b on mathematical values.
ZLt(a, b) ==
    IF ZIsNeg(a) # ZIsNeg(b) THEN ZIsNeg(a)
    ELSE \E i \in Limbs : a[i] < b[i] /\ \A j \in Limbs : j > i => a[j] = b[j]

ZGt(a, b) == ZLt(b, a)

ZLe(a, b) == ~ZLt(b, a)

(***************************************************************************)
(* Integer kinds.                                                          *)
(***************************************************************************)
Unsigned == {"u8", "u16", "u32", "u64", "usize"}

SignedKinds == {"i8", "i16", "i32", "i64", "isize"}

Kinds == Unsigned \cup SignedKinds

\* cfg!(target_pointer_width = "32") / "64"
PointerWidths == {32, 64}

\* Width in bits of kind k on a target whose pointers have W bits.
Bits(W, k) ==
    CASE k \in {"u8", "i8"}       -> 8
      [] k \in {"u16", "i16"}     -> 16
      [] k \in {"u32", "i32"}     -> 32
      [] k \in {"u64", "i64"}     -> 64
      [] k \in {"usize", "isize"} -> W

\* mem::size_of::<k>(), in bytes.
size_of(W, k) == Bits(W, k) \div 8

\* k::MAX
MAX(W, k) ==
    IF k \in SignedKinds THEN ZSub(Pow2(Bits(W, k) - 1), ZFromInt(1))
    ELSE ZSub(Pow2(Bits(W, k)), ZFromInt(1))

\* k::MIN
MIN(W, k) == IF k \in SignedKinds THEN ZNegate(Pow2(Bits(W, k) - 1)) ELSE Zero

\* z is a value of kind k.
InRange(W, z, k) == ZLe(MIN(W, k), z) /\ ZLe(z, MAX(W, k))

\* `z as k`: keep the low Bits(k) bits of z and read them with k's
\* signedness (truncation, or zero-/sign-extension to the wider kind).
As(W, z, k) ==
    LET b    == Bits(W, k)
        top  == ((b - 1) \div 16) + 1
        sign == (z[top] \div 2^((b - 1) % 16)) % 2 = 1
        ext  == k \in SignedKinds /\ sign
    IN  [i \in Limbs |->
            IF 16 * i <= b THEN z[i]
            ELSE IF 16 * (i - 1) >= b THEN (IF ext THEN Base - 1 ELSE 0)
            ELSE LET m == 2^(b - 16 * (i - 1))
                 IN  (z[i] % m) + (IF ext THEN Base - m ELSE 0)]

(***************************************************************************)
(* Results.                                                                *)
(***************************************************************************)
Overflow == "Overflow"

Underflow == "Underflow"

Ok(z) == [ok |-> TRUE, val |-> z, err |-> "none"]

Err(e) == [ok |-> FALSE, val |-> Zero, err |-> e]

\* What one call produced: its result and the destination bounds whose
\* cast into the source kind (`$t::MAX as $f`, `$t::MIN as $f`) was evaluated.
Ran(r, casts) == [res |-> r, casts |-> casts]

(***************************************************************************)
(* The five macros' tables, as sets of <<$t, $f>>.                         *)
(***************************************************************************)
Row(t, fs) == {<<t, f>> : f \in fs}

\* Mutant: `isize from i32` left out of the infallible table.
infallible_table_without_isize_from_i32 ==
    Row("u8", {"u8"})
    \cup Row("u16", {"u8", "u16"})
    \cup Row("u32", {"u8", "u16", "u32"})
    \cup Row("u64", {"u8", "u16", "u32", "u64", "usize"})
    \cup Row("usize", {"u8", "u16", "u32", "usize"})
    \cup Row("i8", {"i8"})
    \cup Row("i16", {"u8", "i8", "i16"})
    \cup Row("i32", {"u8", "u16", "i8", "i16", "i32"})
    \cup Row("i64", {"u8", "u16", "u32", "i8", "i16", "i32", "i64", "isize"})
    \cup Row("isize", {"u8", "u16", "i8", "i16", "isize"})

\* Mutant: `isize from u32`, lossless on 64-bit targets only, listed as
\* infallible.
infallible_table_with_isize_from_u32 ==
    Row("u8", {"u8"})
    \cup Row("u16", {"u8", "u16"})
    \cup Row("u32", {"u8", "u16", "u32"})
    \cup Row("u64", {"u8", "u16", "u32", "u64", "usize"})
    \cup Row("usize", {"u8", "u16", "u32", "usize"})
    \cup Row("i8", {"i8"})
    \cup Row("i16", {"u8", "i8", "i16"})
    \cup Row("i32", {"u8", "u16", "i8", "i16", "i32"})
    \cup Row("i64", {"u8", "u16", "u32", "i8", "i16", "i32", "i64", "isize"})
    \cup Row("isize", {"u8", "u16", "u32", "i8", "i16", "i32", "isize"})

infallible_table ==
    Row("u8", {"u8"})
    \cup Row("u16", {"u8", "u16"})
    \cup Row("u32", {"u8", "u16", "u32"})
    \cup Row("u64", {"u8", "u16", "u32", "u64", "usize"})
    \cup Row("usize", {"u8", "u16", "u32", "usize"})
    \cup Row("i8", {"i8"})
    \cup Row("i16", {"u8", "i8", "i16"})
    \cup Row("i32", {"u8", "u16", "i8", "i16", "i32"})
    \cup Row("i64", {"u8", "u16", "u32", "i8", "i16", "i32", "i64", "isize"})
    \cup Row("isize", {"u8", "u16", "i8", "i16", "i32", "isize"})

\* Mutant: `usize from u32` listed here although the infallible table has it.
unsigned_from_unsigned_table_with_usize_from_u32 ==
    Row("u8", {"u16", "u32", "u64", "usize"})
    \cup Row("u16", {"u32", "u64", "usize"})
    \cup Row("u32", {"u64", "usize"})
    \cup Row("usize", {"u32", "u64"})

unsigned_from_unsigned_table ==
    Row("u8", {"u16", "u32", "u64", "usize"})
    \cup Row("u16", {"u32", "u64", "usize"})
    \cup Row("u32", {"u64", "usize"})
    \cup Row("usize", {"u64"})

unsigned_from_signed_table ==
    Row("u8", {"i8", "i16", "i32", "i64", "isize"})
    \cup Row("u16", {"i8", "i16", "i32", "i64", "isize"})
    \cup Row("u32", {"i8", "i16", "i32", "i64", "isize"})
    \cup Row("u64", {"i8", "i16", "i32", "i64", "isize"})
    \cup Row("usize", {"i8", "i16", "i32", "i64", "isize"})

signed_from_unsigned_table ==
    Row("i8", {"u8", "u16", "u32", "u64", "usize"})
    \cup Row("i16", {"u16", "u32", "u64", "usize"})
    \cup Row("i32", {"u32", "u64", "usize"})
    \cup Row("i64", {"u64", "usize"})
    \cup Row("isize", {"u32", "u64", "usize"})

signed_from_signed_table ==
    Row("i8", {"i16", "i32", "i64", "isize"})
    \cup Row("i16", {"i32", "i64", "isize"})
    \cup Row("i32", {"i64", "isize"})
    \cup Row("isize", {"i64"})

(***************************************************************************)
(* The five macros' try_from bodies.                                       *)
(***************************************************************************)
impl_infallible(W, t, f, n) == Ran(Ok(As(W, n, t)), {})

\* Mutant: the value is narrowed before it is compared
\* (`n as $t > $t::MAX`), so the comparison never succeeds.
impl_unsigned_from_unsigned_narrowed_first(W, t, f, n) ==
    IF size_of(W, f) > size_of(W, t)
    THEN IF ZGt(As(W, n, t), MAX(W, t))
         THEN Ran(Err(Overflow), {"MAX"})
         ELSE Ran(Ok(As(W, n, t)), {"MAX"})
    ELSE Ran(Ok(As(W, n, t)), {})

impl_unsigned_from_unsigned(W, t, f, n) ==
    IF size_of(W, f) > size_of(W, t)
    THEN IF ZGt(n, As(W, MAX(W, t), f))
         THEN Ran(Err(Overflow), {"MAX"})
         ELSE Ran(Ok(As(W, n, t)), {"MAX"})
    ELSE Ran(Ok(As(W, n, t)), {})

\* Mutant: the sign test is missing.
impl_unsigned_from_signed_no_sign_test(W, t, f, n) ==
    IF size_of(W, f) > size_of(W, t)
    THEN IF ZGt(n, As(W, MAX(W, t), f))
         THEN Ran(Err(Overflow), {"MAX"})
         ELSE Ran(Ok(As(W, n, t)), {"MAX"})
    ELSE Ran(Ok(As(W, n, t)), {})

\* Mutant: the magnitude test comes first and compares in the unsigned
\* domain (`n as u64 > $t::MAX as u64`).
impl_unsigned_from_signed_magnitude_first(W, t, f, n) ==
    IF size_of(W, f) > size_of(W, t) /\ ZGt(As(W, n, "u64"), As(W, MAX(W, t), "u64"))
    THEN Ran(Err(Overflow), {})
    ELSE IF ZLt(n, Zero)
         THEN Ran(Err(Underflow), {})
         ELSE Ran(Ok(As(W, n, t)), {})

\* Mutant: the size guard is `>=` where the code has `>`.
impl_unsigned_from_signed_guard_ge(W, t, f, n) ==
    IF ZLt(n, Zero)
    THEN Ran(Err(Underflow), {})
    ELSE IF size_of(W, f) >= size_of(W, t)
         THEN IF ZGt(n, As(W, MAX(W, t), f))
              THEN Ran(Err(Overflow), {"MAX"})
              ELSE Ran(Ok(As(W, n, t)), {"MAX"})
         ELSE Ran(Ok(As(W, n, t)), {})

impl_unsigned_from_signed(W, t, f, n) ==
    IF ZLt(n, Zero)
    THEN Ran(Err(Underflow), {})
    ELSE IF size_of(W, f) > size_of(W, t)
         THEN IF ZGt(n, As(W, MAX(W, t), f))
              THEN Ran(Err(Overflow), {"MAX"})
              ELSE Ran(Ok(As(W, n, t)), {"MAX"})
         ELSE Ran(Ok(As(W, n, t)), {})

\* Mutant: the size guard is `>` where the code has `>=`.
impl_signed_from_unsigned_guard_gt(W, t, f, n) ==
    IF size_of(W, f) > size_of(W, t)
    THEN IF ZGt(n, As(W, MAX(W, t), f))
         THEN Ran(Err(Overflow), {"MAX"})
         ELSE Ran(Ok(As(W, n, t)), {"MAX"})
    ELSE Ran(Ok(As(W, n, t)), {})

\* Mutant: the failure is reported as Underflow.
impl_signed_from_unsigned_wrong_kind(W, t, f, n) ==
    IF size_of(W, f) >= size_of(W, t)
    THEN IF ZGt(n, As(W, MAX(W, t), f))
         THEN Ran(Err(Underflow), {"MAX"})
         ELSE Ran(Ok(As(W, n, t)), {"MAX"})
    ELSE Ran(Ok(As(W, n, t)), {})

impl_signed_from_unsigned(W, t, f, n) ==
    IF size_of(W, f) >= size_of(W, t)
    THEN IF ZGt(n, As(W, MAX(W, t), f))
         THEN Ran(Err(Overflow), {"MAX"})
         ELSE Ran(Ok(As(W, n, t)), {"MAX"})
    ELSE Ran(Ok(As(W, n, t)), {})

\* Mutant: the upper comparison is `>=` where the code has `>`.
impl_signed_from_signed_max_excluded(W, t, f, n) ==
    IF size_of(W, f) > size_of(W, t)
    THEN IF ~ZLt(n, As(W, MAX(W, t), f))
         THEN Ran(Err(Overflow), {"MAX"})
         ELSE IF ZLt(n, As(W, MIN(W, t), f))
              THEN Ran(Err(Underflow), {"MAX", "MIN"})
              ELSE Ran(Ok(As(W, n, t)), {"MAX", "MIN"})
    ELSE Ran(Ok(As(W, n, t)), {})

impl_signed_from_signed(W, t, f, n) ==
    IF size_of(W, f) > size_of(W, t)
    THEN IF ZGt(n, As(W, MAX(W, t), f))
         THEN Ran(Err(Overflow), {"MAX"})
         ELSE IF ZLt(n, As(W, MIN(W, t), f))
              THEN Ran(Err(Underflow), {"MAX", "MIN"})
              ELSE Ran(Ok(As(W, n, t)), {"MAX", "MIN"})
    ELSE Ran(Ok(As(W, n, t)), {})

\* <$t as TryFrom<$f>>::try_from(n): the body of the macro whose table
\* holds the pair.
Call(W, t, f, n) ==
    CASE <<t, f>> \in infallible_table            -> impl_infallible(W, t, f, n)
      [] <<t, f>> \in unsigned_from_unsigned_table -> impl_unsigned_from_unsigned(W, t, f, n)
      [] <<t, f>> \in unsigned_from_signed_table   -> impl_unsigned_from_signed(W, t, f, n)
      [] <<t, f>> \in signed_from_unsigned_table   -> impl_signed_from_unsigned(W, t, f, n)
      [] <<t, f>> \in signed_from_signed_table     -> impl_signed_from_signed(W, t, f, n)

TryFrom(W, t, f, n) == Call(W, t, f, n).res

(***************************************************************************)
(* Arguments.                                                              *)
(***************************************************************************)
\* The exponents of the boundaries of the kinds' ranges, and two between.
Exponents == {7, 8, 15, 16, 24, 31, 32, 48, 63, 64}

Boundaries ==
    {Zero} \cup {Pow2(e) : e \in Exponents}
           \cup {ZNegate(Pow2(e)) : e \in Exponents \ {64}}

\* Values with bits set on both sides of a boundary: 2^a + 2^b, and negated.
Interior ==
    LET sums == {ZAdd(Pow2(a), Pow2(b)) : a, b \in Exponents \ {64}}
    IN  sums \cup {ZNegate(z) : z \in sums}

Candidates ==
    {ZAdd(b, ZFromInt(d)) : b \in Boundaries, d \in -MaxDelta..MaxDelta}
    \cup Interior

\* The values of kind k among the candidates.
Values(W, k) == {z \in Candidates : InRange(W, z, k)}

(***************************************************************************)
(* The state machine.                                                      *)
(***************************************************************************)
Pending == [ok |-> FALSE, val |-> Zero, err |-> "pending"]

Init ==
    /\ ptr_width \in PointerWidths
    /\ src \in Kinds
    /\ dst \in Kinds
    /\ arg \in Values(ptr_width, src)
    /\ result = Pending
    /\ promoted = {}
    /\ pc = "call"

Return(ran) ==
    /\ result' = ran.res
    /\ promoted' = ran.casts
    /\ pc' = "done"
    /\ UNCHANGED <<ptr_width, src, dst, arg>>

Infallible ==
    /\ pc = "call"
    /\ <<dst, src>> \in infallible_table
    /\ Return(impl_infallible(ptr_width, dst, src, arg))

UnsignedFromUnsigned ==
    /\ pc = "call"
    /\ <<dst, src>> \in unsigned_from_unsigned_table
    /\ Return(impl_unsigned_from_unsigned(ptr_width, dst, src, arg))

UnsignedFromSigned ==
    /\ pc = "call"
    /\ <<dst, src>> \in unsigned_from_signed_table
    /\ Return(impl_unsigned_from_signed(ptr_width, dst, src, arg))

SignedFromUnsigned ==
    /\ pc = "call"
    /\ <<dst, src>> \in signed_from_unsigned_table
    /\ Return(impl_signed_from_unsigned(ptr_width, dst, src, arg))

SignedFromSigned ==
    /\ pc = "call"
    /\ <<dst, src>> \in signed_from_signed_table
    /\ Return(impl_signed_from_signed(ptr_width, dst, src, arg))

Next ==
    \/ Infallible
    \/ UnsignedFromUnsigned
    \/ UnsignedFromSigned
    \/ SignedFromUnsigned
    \/ SignedFromSigned

Spec == Init /\ [][Next]_vars

TypeOK ==
    /\ ptr_width \in PointerWidths
    /\ src \in Kinds /\ dst \in Kinds
    /\ InRange(ptr_width, arg, src)
    /\ pc \in {"call", "done"}
    /\ result.ok => InRange(ptr_width, result.val, dst)

(***************************************************************************)
(* Properties.                                                             *)
(***************************************************************************)
Done == pc = "done"

\* C1: for every pair, either pointer width and every value of the source
\* kind, try_from returns Ok exactly when MIN(To) <= v <= MAX(To),
\* Err(Overflow) exactly when v > MAX(To) and Err(Underflow) exactly when
\* v < MIN(To), compared as mathematical values.
C1_OutcomeIsRangeTest ==
    Done =>
        /\ result.ok <=> InRange(ptr_width, arg, dst)
        /\ (result = Err(Overflow)) <=> ZGt(arg, MAX(ptr_width, dst))
        /\ (result = Err(Underflow)) <=> ZLt(arg, MIN(ptr_width, dst))

\* isize::try_from(0x8000_0000u64) on a 32-bit target fails with Overflow.
C1_Witness ==
    /\ Done /\ ptr_width = 32 /\ src = "u64" /\ dst = "isize"
    /\ arg = Pow2(31) /\ result = Err(Overflow)

\* C2: when To::try_from(v) returns Ok(w), w has the mathematical value of
\* v, and From::try_from(w) returns Ok(v).
C2_RoundTrip ==
    (Done /\ result.ok) =>
        /\ result.val = arg
        /\ TryFrom(ptr_width, src, dst, result.val) = Ok(arg)

\* u8::try_from(0xffu16) is Ok(0xff), a narrowing that succeeded.
C2_Witness ==
    /\ Done /\ src = "u16" /\ dst = "u8"
    /\ arg = ZFromInt(255) /\ result = Ok(ZFromInt(255))

Tables ==
    <<infallible_table, unsigned_from_unsigned_table, unsigned_from_signed_table,
      signed_from_unsigned_table, signed_from_signed_table>>

\* C3: each of the 100 ordered pairs of kinds, From = To included, is in
\* exactly one of the five tables.
C3_ExactlyOneTable ==
    Cardinality({i \in 1..5 : <<dst, src>> \in Tables[i]}) = 1

\* A call of usize from usize, which only the infallible macro can take.
C3_Witness ==
    /\ src = "usize" /\ dst = "usize" /\ pc = "call"
    /\ ENABLED Infallible /\ ~ENABLED UnsignedFromUnsigned

\* Every value of kind f is a value of kind t at pointer width W.
Representable(W, f, t) ==
    ZLe(MIN(W, t), MIN(W, f)) /\ ZLe(MAX(W, f), MAX(W, t))

FixedWidth(W, k) ==
    CASE k = "usize" -> (IF W = 32 THEN "u32" ELSE "u64")
      [] k = "isize" -> (IF W = 32 THEN "i32" ELSE "i64")
      [] OTHER       -> k

\* C5: at each pointer width W, a pair in which usize or isize occurs gives
\* the outcome of the pair with usize replaced by the W-bit unsigned kind
\* and isize by the W-bit signed kind; u32::try_from(usize::MAX) is
\* Ok(u32::MAX) at 32 and Err(Overflow) at 64, usize::try_from(u64::MAX) is
\* Err(Overflow) at 32 and Ok at 64.
C5_PointerSizedAsFixedWidth ==
    Done =>
        /\ ({src, dst} \cap {"usize", "isize"} # {})
               => result = TryFrom(ptr_width, FixedWidth(ptr_width, dst),
                                   FixedWidth(ptr_width, src), arg)
        /\ (src = "usize" /\ dst = "u32" /\ arg = MAX(ptr_width, "usize"))
               => result = (IF ptr_width = 32 THEN Ok(MAX(32, "u32"))
                            ELSE Err(Overflow))
        /\ (src = "u64" /\ dst = "usize" /\ arg = MAX(ptr_width, "u64"))
               => result = (IF ptr_width = 32 THEN Err(Overflow) ELSE Ok(arg))

\* isize::try_from(u32::MAX) on a 32-bit target fails as i32::try_from does.
C5_Witness ==
    /\ Done /\ ptr_width = 32 /\ src = "u32" /\ dst = "isize"
    /\ arg = MAX(32, "u32") /\ result = Err(Overflow)

\* C6: with M and m the destination's maximum and minimum, try_from(M) is
\* Ok(M), try_from(M+1) is Err(Overflow), try_from(m) is Ok(m) and
\* try_from(m-1) is Err(Underflow), each whenever the argument is a value of
\* the source kind.
C6_BoundaryExactness ==
    Done =>
        LET M == MAX(ptr_width, dst)
            m == MIN(ptr_width, dst)
        IN  /\ arg = M => result = Ok(M)
            /\ arg = ZAdd(M, ZFromInt(1)) => result = Err(Overflow)
            /\ arg = m => result = Ok(m)
            /\ arg = ZSub(m, ZFromInt(1)) => result = Err(Underflow)

\* i32::try_from(i32::MIN - 1) from isize on a 64-bit target.
C6_Witness ==
    /\ Done /\ ptr_width = 64 /\ src = "isize" /\ dst = "i32"
    /\ arg = ZSub(MIN(64, "i32"), ZFromInt(1)) /\ result = Err(Underflow)

\* C7: when try_from(v) is Err(Overflow), so is try_from(v') for every
\* v' > v of the source kind; when it is Err(Underflow), so is try_from(v')
\* for every v' < v.
C7_MonotonicFailure ==
    Done =>
        /\ result = Err(Overflow) =>
               \A v \in Values(ptr_width, src) :
                   ZGt(v, arg) => TryFrom(ptr_width, dst, src, v) = Err(Overflow)
        /\ result = Err(Underflow) =>
               \A v \in Values(ptr_width, src) :
                   ZLt(v, arg) => TryFrom(ptr_width, dst, src, v) = Err(Underflow)

\* u8::try_from(256i16) overflows, and i16 has larger values.
C7_Witness ==
    /\ Done /\ src = "i16" /\ dst = "u8" /\ arg = ZFromInt(256)
    /\ result = Err(Overflow)
    /\ \E v \in Values(ptr_width, src) : ZGt(v, arg)

\* C8: Err(Underflow) is returned only when the source kind is signed and
\* the value is negative, with the destination unsigned or with both kinds
\* signed and the value below the destination's minimum; a conversion from
\* an unsigned source never returns it.
C8_UnderflowOnlyFromNegative ==
    (Done /\ result = Err(Underflow)) =>
        /\ src \in SignedKinds
        /\ ZLt(arg, Zero)
        /\ \/ dst \in Unsigned
           \/ dst \in SignedKinds /\ ZLt(arg, MIN(ptr_width, dst))

\* i8::try_from(-129i16).
C8_Witness ==
    /\ Done /\ src = "i16" /\ dst = "i8" /\ arg = ZFromInt(-129)
    /\ result = Err(Underflow)

\* C9: from a signed source to an unsigned destination, whatever their
\* widths, the sign test comes first: a negative value yields Err(Underflow)
\* with no bound compared; Err(Overflow) is returned only for a non-negative
\* value and only when the source is strictly wider than the destination.
C9_SignTestFirst ==
    (Done /\ src \in SignedKinds /\ dst \in Unsigned) =>
        /\ ZLt(arg, Zero) => result = Err(Underflow) /\ promoted = {}
        /\ result = Err(Overflow) =>
               ~ZLt(arg, Zero) /\ Bits(ptr_width, src) > Bits(ptr_width, dst)

\* u8::try_from(i64::MIN): negative, and the source is the wider kind.
C9_Witness ==
    /\ Done /\ src = "i64" /\ dst = "u8" /\ arg = MIN(ptr_width, "i64")
    /\ result = Err(Underflow)

\* The destination bound named b.
Bound(b, W, t) == IF b = "MAX" THEN MAX(W, t) ELSE MIN(W, t)

\* C10: whenever a comparison against `To::MAX as From` or `To::MIN as From`
\* is evaluated, the wrapping cast of the bound into the source kind yields
\* the bound's mathematical value; where the cast would truncate or change
\* sign (u32::MAX as i32, u64::MAX as i8, isize::MAX as u32 at 64 bits) the
\* comparison is skipped.
C10_PromotionLossless ==
    Done =>
        /\ \A b \in promoted :
               As(ptr_width, Bound(b, ptr_width, dst), src) = Bound(b, ptr_width, dst)
        /\ (dst = "u32" /\ src = "i32") => promoted = {}
        /\ (dst = "u64" /\ src = "i8") => promoted = {}
        /\ (dst = "isize" /\ src = "u32" /\ ptr_width = 64) => promoted = {}

\* isize::try_from(n: i64) on a 32-bit target compares against both bounds.
C10_Witness ==
    /\ Done /\ ptr_width = 32 /\ src = "i64" /\ dst = "isize"
    /\ promoted = {"MAX", "MIN"} /\ result.ok
====
